---- MODULE Spec2Model ----
(***************************************************************************)
(* Model of message_ix_models.testing: the CLI test runner (CliRunner),    *)
(* the session/test context fixtures (session_context, test_context) and   *)
(* the scenario helper bare_res.  Three specifications share the module:   *)
(* SpecCli, SpecSession and SpecBare; each leaves the other components'    *)
(* variables untouched.                                                    *)
(***************************************************************************)
EXTENDS Integers, Sequences, FiniteSets, TLC

VARIABLES
  \* ---- CliRunner
  logLevel,     \* level of the package's top-level logger (global state)
  lastResult,   \* CliRunner.last_result
  hasResult,    \* whether the attribute last_result exists on the runner
  nInvoked,     \* number of CLI invocations started so far (fresh result ids)
  history,      \* results produced by the invocations that returned, oldest first
  cliOut,       \* what the last call on the runner did (observation)
  \* ---- session_context / test_context
  pc,           \* phase of the pytest session
  registry,     \* ixmp_config.values["platform"]: names of registered platforms
  regAdded,     \* how often the test platform entry was added
  regRemoved,   \* how often the test platform entry was removed
  heap,         \* Context objects by reference
  testRef,      \* reference of the running test's context, 0 when no test runs
  nCtx,         \* number of Context objects allocated
  handles,      \* Platform objects (connections) by id: "none", "open", "closed"
  fsDirs,       \* directories created on the file system
  nTests,       \* number of tests started
  sessSnap,     \* the session context as session_context setup left it
  sessHandles,  \* connections opened for the session (mp and the session context's)
  localCache,   \* the --local-cache option the session was started with
  ctxOut,       \* what the last call on a context did (observation)
  \* ---- bare_res
  store,        \* scenarios stored on the platform, in creation order
  calls,        \* per returned bare_res call: index in store of the returned object
  expected,     \* per returned bare_res call: the data its caller last wrote or got
  nSolves,      \* number of solve() runs per model name
  scenarioInfo, \* context.scenario_info: (model, scenario) last set by bare_res
  bareOut       \* what the last bare_res call did (observation)

varsCli == <<logLevel, lastResult, hasResult, nInvoked, history, cliOut>>
varsSession == <<pc, registry, regAdded, regRemoved, heap, testRef, nCtx, handles,
                 fsDirs, nTests, sessSnap, sessHandles, localCache, ctxOut>>
varsBare == <<store, calls, expected, nSolves, scenarioInfo, bareOut>>
vars == <<varsCli, varsSession, varsBare>>

(***************************************************************************)
(* CliRunner                                                               *)
(***************************************************************************)

\* Bound: number of CLI invocations in one run of the model.
MaxInvokes == 3

\* logging.DEBUG, logging.INFO, logging.WARNING
Levels == {10, 20, 30}

\* An exception object: its type and the type of its __context__ ("None" when
\* it was not raised while another exception was being handled).
PlainTypes == {"ValueError", "KeyError"}
NoExc == [type |-> "None", ctx |-> "None"]
Exc(t, c) == [type |-> t, ctx |-> c]

\* What the invoked command does: return, raise a plain exception (possibly
\* while handling another one), raise a click exception (UsageError), or call
\* sys.exit(code).
Commands ==
  {[kind |-> "return", exc |-> NoExc, code |-> 0]}
  \cup {[kind |-> "raise", exc |-> Exc(t, c), code |-> 1] :
          t \in PlainTypes, c \in {"None", "KeyError"}}
  \cup {[kind |-> "click_error", exc |-> Exc("UsageError", "None"), code |-> 2]}
  \cup {[kind |-> "sys_exit", exc |-> Exc("SystemExit", "None"), code |-> c] :
          c \in {0, 3}}

NoResult == [id |-> 0, exit_code |-> 0, exc |-> NoExc, cmdRaised |-> NoExc]

\* click.testing.CliRunner.invoke(cli.main, ...): the command line entry point
\* runs in standalone mode.  A click exception is shown and turned into
\* sys.exit(exit_code) inside the handler, so the SystemExit carries it as
\* __context__; SystemExit is always caught by the runner; any other exception
\* is caught into the result (exit code 1) unless catch_exceptions is False,
\* and then it propagates.  cmdRaised records the exception the command raised.
ClickInvoke(cmd, catch, id) ==
  CASE cmd.kind = "return" ->
         [raised |-> FALSE, exc |-> NoExc,
          result |-> [id |-> id, exit_code |-> 0,
                      exc |-> Exc("SystemExit", "Exit"), cmdRaised |-> NoExc]]
    [] cmd.kind = "raise" ->
         IF catch
         THEN [raised |-> FALSE, exc |-> NoExc,
               result |-> [id |-> id, exit_code |-> 1,
                           exc |-> cmd.exc, cmdRaised |-> cmd.exc]]
         ELSE [raised |-> TRUE, exc |-> cmd.exc, result |-> NoResult]
    [] cmd.kind = "click_error" ->
         [raised |-> FALSE, exc |-> NoExc,
          result |-> [id |-> id, exit_code |-> cmd.code,
                      exc |-> Exc("SystemExit", cmd.exc.type),
                      cmdRaised |-> cmd.exc]]
    [] cmd.kind = "sys_exit" ->
         [raised |-> FALSE, exc |-> NoExc,
          result |-> [id |-> id, exit_code |-> cmd.code,
                      exc |-> cmd.exc,
                      cmdRaised |-> IF cmd.code = 0 THEN NoExc ELSE cmd.exc]]

\* preserve_log_level(): the level stored on entry is set again on exit,
\* whether the wrapped call returns or raises.
PreserveLogLevel(before, after) == before

InvokeLevel_undecorated(before, after) == after

\* The log level after the decorated CliRunner.invoke, when the command left
\* the level at `after`.
InvokeLevel(before, after) == PreserveLogLevel(before, after)

StoreResult_onlyFirst(had, old, new) == IF had THEN old ELSE new

\* self.last_result = result
StoreResult(had, old, new) == new

\* The part of assert_exit_0 after the optional invoke: judge last_result.
\* `raise None` is a TypeError in Python.
JudgeLast(has, lr) ==
  IF ~has
  THEN [kind |-> "raised", exc |-> Exc("AttributeError", "None"), result |-> NoResult,
        judged |-> FALSE]
  ELSE IF lr.exit_code # 0
  THEN [kind |-> "raised",
        exc |-> IF lr.exc.ctx = "None"
                THEN Exc("TypeError", "None")
                ELSE Exc(lr.exc.ctx, "None"),
        result |-> NoResult, judged |-> TRUE]
  ELSE [kind |-> "returned", exc |-> NoExc, result |-> lr, judged |-> TRUE]

InitCli ==
  /\ logLevel \in Levels
  /\ lastResult = NoResult
  /\ hasResult = FALSE
  /\ nInvoked = 0
  /\ history = <<>>
  /\ cliOut = [op |-> "none", withArgs |-> FALSE, kind |-> "none", exc |-> NoExc,
               result |-> NoResult, judged |-> FALSE, judgedResult |-> NoResult,
               invoked |-> FALSE, stored |-> FALSE,
               levelBefore |-> 0, cmdLevel |-> 0]

\* CliRunner.invoke(*args, **kwargs)
Invoke ==
  \E cmd \in Commands, catch \in BOOLEAN, lvl \in Levels :
    /\ nInvoked < MaxInvokes
    /\ LET r == ClickInvoke(cmd, catch, nInvoked + 1) IN
       /\ nInvoked' = nInvoked + 1
       /\ logLevel' = InvokeLevel(logLevel, lvl)
       /\ lastResult' = IF r.raised THEN lastResult
                        ELSE StoreResult(hasResult, lastResult, r.result)
       /\ hasResult' = (hasResult \/ ~r.raised)
       /\ history' = IF r.raised THEN history ELSE Append(history, r.result)
       /\ cliOut' = [op |-> "invoke", withArgs |-> TRUE,
                     kind |-> IF r.raised THEN "raised" ELSE "returned",
                     exc |-> r.exc, result |-> r.result, judged |-> FALSE,
                     judgedResult |-> NoResult,
                     invoked |-> TRUE, stored |-> ~r.raised,
                     levelBefore |-> logLevel, cmdLevel |-> lvl]
    /\ UNCHANGED <<varsSession, varsBare>>

\* CliRunner.assert_exit_0() without arguments: judge the stored result.
AssertExit0NoArgs ==
  LET j == JudgeLast(hasResult, lastResult) IN
  /\ cliOut' = [op |-> "assert_exit_0", withArgs |-> FALSE, kind |-> j.kind,
                exc |-> j.exc, result |-> j.result, judged |-> j.judged,
                judgedResult |-> IF j.judged THEN lastResult ELSE NoResult,
                invoked |-> FALSE, stored |-> FALSE,
                levelBefore |-> logLevel, cmdLevel |-> logLevel]
  /\ UNCHANGED <<logLevel, lastResult, hasResult, nInvoked, history>>
  /\ UNCHANGED <<varsSession, varsBare>>

\* CliRunner.assert_exit_0(*args, **kwargs) with arguments: invoke, then judge.
AssertExit0Args ==
  \E cmd \in Commands, catch \in BOOLEAN, lvl \in Levels :
    /\ nInvoked < MaxInvokes
    /\ LET r == ClickInvoke(cmd, catch, nInvoked + 1)
           lr == IF r.raised THEN lastResult
                 ELSE StoreResult(hasResult, lastResult, r.result)
           has == (hasResult \/ ~r.raised)
           j == JudgeLast(has, lr)
       IN
       /\ nInvoked' = nInvoked + 1
       /\ logLevel' = InvokeLevel(logLevel, lvl)
       /\ lastResult' = lr
       /\ hasResult' = has
       /\ history' = IF r.raised THEN history ELSE Append(history, r.result)
       /\ cliOut' = IF r.raised
                    THEN [op |-> "assert_exit_0", withArgs |-> TRUE, kind |-> "raised",
                          exc |-> r.exc, result |-> NoResult, judged |-> FALSE,
                          judgedResult |-> NoResult,
                          invoked |-> TRUE, stored |-> FALSE,
                          levelBefore |-> logLevel, cmdLevel |-> lvl]
                    ELSE [op |-> "assert_exit_0", withArgs |-> TRUE, kind |-> j.kind,
                          exc |-> j.exc, result |-> j.result, judged |-> j.judged,
                          judgedResult |-> IF j.judged THEN lr ELSE NoResult,
                          invoked |-> TRUE, stored |-> TRUE,
                          levelBefore |-> logLevel, cmdLevel |-> lvl]
    /\ UNCHANGED <<varsSession, varsBare>>

\* CliRunner.assert_exit_0
AssertExit0 == AssertExit0NoArgs \/ AssertExit0Args

NextCli == Invoke \/ AssertExit0

(***************************************************************************)
(* session_context, test_context and the Context they handle               *)
(***************************************************************************)

\* Bound: number of test functions run in the session.
MaxTests == 3

MaxCtx == MaxTests + 1
MaxHandles == MaxTests + 2

PlatformName == "message-ix-models"

\* Paths are sequences of components.
UserLocalData == <<"home", "user", "local_data">>
SessionTmpDir == <<"tmp", "pytest", "data0">>
OtherDir == <<"tmp", "other">>
JoinPath(p, parts) == p \o parts

Keys == {"foo"}
Values == {"v23", "v45"}
Unset == "unset"
PartsSet == {<<"pytest", "bar.pkl">>, <<>>}

NoCtx == [local_data |-> <<>>, cache_path |-> <<>>, opts |-> [k \in Keys |-> Unset],
          platform_name |-> "", mp |-> 0, deleted |-> FALSE]

\* Context.only(): the single Context of the process, with the user's settings.
ContextOnly == [NoCtx EXCEPT !.local_data = UserLocalData,
                             !.cache_path = JoinPath(UserLocalData, <<"cache">>)]

\* deepcopy(Context): every option and path field is copied by value; the copy
\* holds no database handle of its own yet.
DeepCopy(c) == [c EXCEPT !.mp = 0, !.deleted = FALSE]

SetDefault_overwrite(c, k, v) ==
  [ctx |-> [c EXCEPT !.opts[k] = v], returned |-> v]

\* Context.setdefault(key, default)
SetDefault(c, k, v) ==
  IF c.opts[k] = Unset
  THEN [ctx |-> [c EXCEPT !.opts[k] = v], returned |-> v]
  ELSE [ctx |-> c, returned |-> c.opts[k]]

\* Attribute-style access context.k: the value, or AttributeError when unset.
GetAttr(c, k) ==
  IF c.opts[k] = Unset THEN [raised |-> TRUE, value |-> Unset]
  ELSE [raised |-> FALSE, value |-> c.opts[k]]

GetCachePath_fromCachePath(c, parts) == JoinPath(c.cache_path, parts)

\* Context.get_cache_path(*parts)
GetCachePath(c, parts) == JoinPath(c.local_data, <<"cache">> \o parts)

\* The first unused Platform object id.
FreshHandle == CHOOSE h \in 1..MaxHandles :
                 /\ handles[h] = "none"
                 /\ \A g \in 1..MaxHandles : g < h => handles[g] # "none"

\* Context.close_db(): close the handle the context holds, if any, and forget it.
CloseDbHandles(c, hs) ==
  IF c.mp = 0 THEN hs ELSE [hs EXCEPT ![c.mp] = "closed"]

NoCtxOut == [op |-> "none", key |-> "", default |-> Unset, before |-> Unset,
             returned |-> Unset, parts |-> <<>>, path |-> <<>>, ctxBefore |-> NoCtx,
             fsBefore |-> {}, failed |-> FALSE, ref |-> 0]

InitSession ==
  /\ pc = "start"
  /\ registry = {"default"}
  /\ regAdded = 0
  /\ regRemoved = 0
  /\ heap = [r \in 1..MaxCtx |-> IF r = 1 THEN ContextOnly ELSE NoCtx]
  /\ testRef = 0
  /\ nCtx = 1
  /\ handles = [h \in 1..MaxHandles |-> "none"]
  /\ fsDirs = {}
  /\ nTests = 0
  /\ sessSnap = NoCtx
  /\ sessHandles = {}
  /\ localCache \in BOOLEAN
  /\ ctxOut = NoCtxOut

\* session_context, up to the yield.  The fixture is a generator: when
\* Platform(name=...) or mp.open_db() raises, the code after the yield is
\* never run and the session aborts with that error.
SessionSetup ==
  \E connectOK \in BOOLEAN :
    /\ pc = "start"
    /\ fsDirs' = fsDirs \cup {SessionTmpDir}
    /\ registry' = registry \cup {PlatformName}
    /\ regAdded' = regAdded + 1
    /\ LET ctx == heap[1]
           paths == [ctx EXCEPT
                       !.cache_path =
                          JoinPath(IF localCache THEN ctx.local_data ELSE SessionTmpDir,
                                   <<"cache">>),
                       !.local_data = SessionTmpDir]
           done == [paths EXCEPT !.platform_name = PlatformName]
       IN
       IF connectOK
       THEN /\ heap' = [heap EXCEPT ![1] = done]
            /\ handles' = [handles EXCEPT ![1] = "open"]
            /\ sessHandles' = {1}
            /\ sessSnap' = done
            /\ pc' = "running"
       ELSE /\ heap' = [heap EXCEPT ![1] = paths]
            /\ UNCHANGED <<handles, sessHandles, sessSnap>>
            /\ pc' = "aborted"
    /\ ctxOut' = [NoCtxOut EXCEPT !.op = "session_setup", !.failed = ~connectOK]
    /\ UNCHANGED <<regRemoved, testRef, nCtx, nTests, localCache>>
    /\ UNCHANGED <<varsCli, varsBare>>

TestSetup_alias ==
  /\ pc = "running"
  /\ testRef = 0
  /\ nTests < MaxTests
  /\ testRef' = 1
  /\ nTests' = nTests + 1
  /\ ctxOut' = [NoCtxOut EXCEPT !.op = "test_setup", !.ref = 1, !.ctxBefore = heap[1]]
  /\ UNCHANGED <<pc, registry, regAdded, regRemoved, heap, nCtx, handles, fsDirs,
                 sessSnap, sessHandles, localCache>>
  /\ UNCHANGED <<varsCli, varsBare>>

\* test_context, up to the yield: ctx = deepcopy(session_context)
TestSetup ==
  /\ pc = "running"
  /\ testRef = 0
  /\ nTests < MaxTests
  /\ nCtx' = nCtx + 1
  /\ heap' = [heap EXCEPT ![nCtx + 1] = DeepCopy(heap[1])]
  /\ testRef' = nCtx + 1
  /\ nTests' = nTests + 1
  /\ ctxOut' = [NoCtxOut EXCEPT !.op = "test_setup", !.ref = nCtx + 1,
                                !.ctxBefore = DeepCopy(heap[1])]
  /\ UNCHANGED <<pc, registry, regAdded, regRemoved, handles, fsDirs,
                 sessSnap, sessHandles, localCache>>
  /\ UNCHANGED <<varsCli, varsBare>>

\* A test calls test_context.setdefault(k, v).
TestSetDefault ==
  \E k \in Keys, v \in Values :
    /\ pc = "running"
    /\ testRef # 0
    /\ LET r == SetDefault(heap[testRef], k, v) IN
       /\ heap' = [heap EXCEPT ![testRef] = r.ctx]
       /\ ctxOut' = [NoCtxOut EXCEPT !.op = "setdefault", !.key = k, !.default = v,
                                     !.before = heap[testRef].opts[k],
                                     !.returned = r.returned, !.ref = testRef]
    /\ UNCHANGED <<pc, registry, regAdded, regRemoved, testRef, nCtx, handles, fsDirs,
                   nTests, sessSnap, sessHandles, localCache>>
    /\ UNCHANGED <<varsCli, varsBare>>

\* A test sets an option (test_context.k = v) or moves test_context.local_data.
TestMutate ==
  /\ pc = "running"
  /\ testRef # 0
  /\ \/ \E k \in Keys, v \in Values :
          heap' = [heap EXCEPT ![testRef].opts[k] = v]
     \/ heap' = [heap EXCEPT ![testRef].local_data = OtherDir]
  /\ ctxOut' = [NoCtxOut EXCEPT !.op = "mutate", !.ref = testRef]
  /\ UNCHANGED <<pc, registry, regAdded, regRemoved, testRef, nCtx, handles, fsDirs,
                 nTests, sessSnap, sessHandles, localCache>>
  /\ UNCHANGED <<varsCli, varsBare>>

\* A test calls test_context.get_cache_path(*parts).
TestGetCachePath ==
  \E parts \in PartsSet :
    /\ pc = "running"
    /\ testRef # 0
    /\ ctxOut' = [NoCtxOut EXCEPT !.op = "get_cache_path", !.parts = parts,
                                  !.path = GetCachePath(heap[testRef], parts),
                                  !.ctxBefore = heap[testRef], !.fsBefore = fsDirs,
                                  !.ref = testRef]
    /\ UNCHANGED <<pc, registry, regAdded, regRemoved, heap, testRef, nCtx, handles,
                   fsDirs, nTests, sessSnap, sessHandles, localCache>>
    /\ UNCHANGED <<varsCli, varsBare>>

\* context.get_platform() on the running test's context, or (onSession) on
\* session_context by a test that uses that fixture: the context's Platform
\* object is made and kept on first use.
GetPlatform ==
  \E onSession \in BOOLEAN :
    /\ pc = "running"
    /\ testRef # 0
    /\ LET ref == IF onSession THEN 1 ELSE testRef IN
       /\ heap[ref].mp = 0
       /\ heap' = [heap EXCEPT ![ref].mp = FreshHandle]
       /\ handles' = [handles EXCEPT ![FreshHandle] = "open"]
       /\ sessHandles' = IF ref = 1 THEN sessHandles \cup {FreshHandle} ELSE sessHandles
       /\ ctxOut' = [NoCtxOut EXCEPT !.op = "get_platform", !.ref = ref]
    /\ UNCHANGED <<pc, registry, regAdded, regRemoved, testRef, nCtx, fsDirs,
                   nTests, sessSnap, localCache>>
    /\ UNCHANGED <<varsCli, varsBare>>

\* test_context after the yield: ctx.delete().  pytest runs it whether the
\* test passed or failed.
TestTeardown ==
  \E failed \in BOOLEAN :
    /\ pc = "running"
    /\ testRef # 0
    /\ handles' = CloseDbHandles(heap[testRef], handles)
    /\ heap' = [heap EXCEPT ![testRef].mp = 0, ![testRef].deleted = TRUE]
    /\ testRef' = 0
    /\ ctxOut' = [NoCtxOut EXCEPT !.op = "test_teardown", !.failed = failed,
                                  !.ref = testRef]
    /\ UNCHANGED <<pc, registry, regAdded, regRemoved, nCtx, fsDirs, nTests,
                   sessSnap, sessHandles, localCache>>
    /\ UNCHANGED <<varsCli, varsBare>>

\* session_context after the yield: ctx.close_db() and
\* ixmp_config.remove_platform(platform_name).
SessionTeardown ==
  /\ pc = "running"
  /\ testRef = 0
  /\ handles' = CloseDbHandles(heap[1], handles)
  /\ heap' = [heap EXCEPT ![1].mp = 0]
  /\ registry' = registry \ {PlatformName}
  /\ regRemoved' = regRemoved + 1
  /\ pc' = "ended"
  /\ ctxOut' = [NoCtxOut EXCEPT !.op = "session_teardown"]
  /\ UNCHANGED <<regAdded, testRef, nCtx, fsDirs, nTests, sessSnap, sessHandles,
                 localCache>>
  /\ UNCHANGED <<varsCli, varsBare>>

NextSession ==
  \/ SessionSetup
  \/ TestSetup
  \/ TestSetDefault
  \/ TestMutate
  \/ TestGetCachePath
  \/ GetPlatform
  \/ TestTeardown
  \/ SessionTeardown

(***************************************************************************)
(* bare_res                                                                *)
(***************************************************************************)

\* Bound: number of bare_res calls in one session.
MaxCalls == 2

Regions == {"R11", "R14"}
Requests == {"None", "test_a", "test_b"}
BareData == "bare"
Data == {BareData, "d1", "d2"}

\* bare.name(context): the model name, a function of the region setting.
BareName(regions) == <<"MESSAGEix-GLOBIOM", regions>>

ModelNames == {BareName(r) : r \in Regions}

\* message_ix.Scenario(mp, model, scenario): the index of the default version
\* of (model, scenario), 0 when there is none (ValueError).
Lookup(st, model, scenario) ==
  LET found == {i \in 1..Len(st) : /\ st[i].model = model
                                   /\ st[i].scenario = scenario
                                   /\ st[i].isDefault}
  IN IF found = {} THEN 0 ELSE CHOOSE i \in found : TRUE

\* bare.create_res(context): a new default scenario holding the bare RES.
CreateRes(model) ==
  [model |-> model, scenario |-> "baseline", version |-> 1, data |-> BareData,
   has_solution |-> FALSE, isDefault |-> TRUE]

\* The version ixmp gives a clone: one more than the last existing version of
\* (model, scenario), 1 when there is none.
NextVersion(st, model, scenario) ==
  Cardinality({i \in 1..Len(st) : st[i].model = model /\ st[i].scenario = scenario}) + 1

\* Scenario.clone(scenario=new_name, keep_solution=keep): an independent copy
\* of the data under a new version; the default version is not changed.
Clone(st, b, new_name, keep) ==
  [model |-> st[b].model, scenario |-> new_name,
   version |-> NextVersion(st, st[b].model, new_name), data |-> st[b].data,
   has_solution |-> (st[b].has_solution /\ keep), isDefault |-> FALSE]

\* new_name = request.node.name, or "baseline" without a request
NewName(req) == IF req = "None" THEN "baseline" ELSE req

KeepSolution_always(solved) == TRUE

\* keep_solution=solved
KeepSolution(solved) == solved

\* if solved and not base.has_solution()
NeedSolve(solved, has) == solved /\ ~has

Returned_base(b, c) == b

\* return base.clone(...): the returned object is the clone, not the base
Returned(b, c) == c

NoBareOut == [op |-> "none", kind |-> "none", solved |-> FALSE, req |-> "None",
              model |-> <<>>, ret |-> 0, found |-> FALSE, created |-> FALSE,
              hadSolution |-> FALSE, didSolve |-> FALSE]

InitBare ==
  /\ store = <<>>
  /\ calls = <<>>
  /\ expected = <<>>
  /\ nSolves = [m \in ModelNames |-> 0]
  /\ scenarioInfo = <<>>
  /\ bareOut = NoBareOut

\* bare_res(request, context, solved); solveOK is the outcome of base.solve().
BareRes ==
  \E regions \in Regions, req \in Requests, solved \in BOOLEAN, solveOK \in BOOLEAN :
    /\ Len(calls) < MaxCalls
    /\ LET name == BareName(regions)
           idx == Lookup(store, name, "baseline")
           s1 == IF idx = 0 THEN Append(store, CreateRes(name)) ELSE store
           b == IF idx = 0 THEN Len(store) + 1 ELSE idx
           had == s1[b].has_solution
           need == NeedSolve(solved, had)
           s2 == IF need THEN [s1 EXCEPT ![b].has_solution = TRUE] ELSE s1
           c == Len(s2) + 1
           out == [NoBareOut EXCEPT !.op = "bare_res", !.solved = solved, !.req = req,
                                    !.model = name, !.found = (idx # 0),
                                    !.created = (idx = 0), !.hadSolution = had]
       IN
       /\ scenarioInfo' = IF idx = 0 THEN <<name, "baseline">> ELSE scenarioInfo
       /\ IF need /\ ~solveOK
          THEN /\ store' = s1
               /\ bareOut' = [out EXCEPT !.kind = "raised"]
               /\ UNCHANGED <<calls, expected, nSolves>>
          ELSE /\ store' = Append(s2, Clone(s2, b, NewName(req), KeepSolution(solved)))
               /\ calls' = Append(calls, Returned(b, c))
               /\ expected' = Append(expected, s2[b].data)
               /\ nSolves' = IF need THEN [nSolves EXCEPT ![name] = @ + 1] ELSE nSolves
               /\ bareOut' = [out EXCEPT !.kind = "returned", !.ret = Returned(b, c),
                                         !.didSolve = need]
    /\ UNCHANGED <<varsCli, varsSession>>

\* A test changes the data of a scenario it got from bare_res; a scenario
\* with a solution must give the solution up to be changed.
MutateReturned ==
  \E j \in 1..Len(calls), d \in Data \ {BareData} :
    /\ store[calls[j]].data # d
    /\ store' = [store EXCEPT ![calls[j]].data = d, ![calls[j]].has_solution = FALSE]
    /\ expected' = [expected EXCEPT ![j] = d]
    /\ bareOut' = [NoBareOut EXCEPT !.op = "mutate", !.ret = calls[j]]
    /\ UNCHANGED <<calls, nSolves, scenarioInfo>>
    /\ UNCHANGED <<varsCli, varsSession>>

NextBare == BareRes \/ MutateReturned

(***************************************************************************)
(* Specifications                                                          *)
(***************************************************************************)

\* The components a specification does not exercise rest in one initial state.
IdleCli == InitCli /\ logLevel = 30
IdleSession == InitSession /\ localCache = FALSE

StartCli == InitCli /\ IdleSession /\ InitBare
StartSession == IdleCli /\ InitSession /\ InitBare
StartBare == IdleCli /\ IdleSession /\ InitBare

SpecCli == StartCli /\ [][NextCli]_vars
SpecSession == StartSession /\ [][NextSession]_vars
SpecBare == StartBare /\ [][NextBare]_vars

(***************************************************************************)
(* Properties                                                              *)
(***************************************************************************)

\* C1: whenever assert_exit_0 judges a result with a non-zero exit code that
\* comes from a command which raised an exception E, assert_exit_0 raises
\* that same exception E.
C1_AssertRaisesOriginal ==
  (/\ cliOut.op = "assert_exit_0"
   /\ cliOut.judged
   /\ cliOut.judgedResult.exit_code # 0
   /\ cliOut.judgedResult.cmdRaised # NoExc)
  => (cliOut.kind = "raised" /\ cliOut.exc = cliOut.judgedResult.cmdRaised)

\* C2: after every invocation made through CliRunner.invoke, returned or
\* raised, the global log level equals the level before that invocation.
C2_LogLevelPreserved ==
  cliOut.invoked => logLevel = cliOut.levelBefore

\* An invocation that raised out of invoke after its command had changed the
\* log level, following an earlier invocation.
C2_Witness ==
  /\ cliOut.op = "invoke"
  /\ cliOut.kind = "raised"
  /\ cliOut.cmdLevel # cliOut.levelBefore
  /\ nInvoked >= 2

C3_EntryRemovedOnce ==
  (pc \in {"ended", "aborted"} /\ regAdded > 0)
  => (regRemoved = 1 /\ PlatformName \notin registry)

\* C4: between session setup and session teardown every session-level
\* connection (the one setup opened and the session context's own) is open,
\* whatever test contexts were set up and deleted in between.
C4_SessionConnectionOpen ==
  pc = "running" => \A h \in sessHandles : handles[h] = "open"

\* A later test is running after an earlier test's context was deleted and
\* its connection closed, while the session context holds a connection too.
C4_Witness ==
  /\ pc = "running"
  /\ nTests >= 2
  /\ testRef # 0
  /\ Cardinality(sessHandles) = 2
  /\ \E h \in 1..MaxHandles : handles[h] = "closed"

\* The values a Context carries: its path fields, options and platform name.
CtxValues(c) == <<c.local_data, c.cache_path, c.opts, c.platform_name>>

\* C5: while tests run, the session context keeps the values setup gave it,
\* and the context a test receives carries exactly those values (path fields
\* included), whatever earlier tests did to their contexts.
C5_TestContextIndependent ==
  pc = "running" =>
    /\ CtxValues(heap[1]) = CtxValues(sessSnap)
    /\ ctxOut.op = "test_setup" =>
         /\ heap[testRef].local_data = sessSnap.local_data
         /\ heap[testRef].cache_path = sessSnap.cache_path
         /\ CtxValues(heap[testRef]) = CtxValues(sessSnap)

\* A test has just received its context after an earlier test changed an
\* option and local_data on its own.
C5_Witness ==
  /\ pc = "running"
  /\ ctxOut.op = "test_setup"
  /\ \E r \in 2..MaxCtx :
       /\ heap[r].deleted
       /\ heap[r].opts # sessSnap.opts
       /\ heap[r].local_data # sessSnap.local_data

\* C7: setdefault(k, v) on an unset key stores and returns v; on a set key it
\* returns the existing value and leaves it stored; attribute access to k
\* then yields the returned value.
C7_SetDefaultKeepsExisting ==
  ctxOut.op = "setdefault" =>
    LET c == heap[ctxOut.ref]
        k == ctxOut.key
    IN /\ ctxOut.before = Unset
            => (ctxOut.returned = ctxOut.default /\ c.opts[k] = ctxOut.default)
       /\ ctxOut.before # Unset
            => (ctxOut.returned = ctxOut.before /\ c.opts[k] = ctxOut.before)
       /\ GetAttr(c, k) = [raised |-> FALSE, value |-> ctxOut.returned]

\* setdefault was called with another default on a key that was already set.
C7_Witness ==
  /\ ctxOut.op = "setdefault"
  /\ ctxOut.before # Unset
  /\ ctxOut.default # ctxOut.before

\* C8: get_cache_path(*parts) on a test context equals local_data joined
\* with "cache" and the parts, for either --local-cache setting, and the call
\* changes neither the context nor the file system.
C8_CachePathUnderLocalData ==
  ctxOut.op = "get_cache_path" =>
    /\ ctxOut.path = JoinPath(JoinPath(ctxOut.ctxBefore.local_data, <<"cache">>),
                              ctxOut.parts)
    /\ heap[ctxOut.ref] = ctxOut.ctxBefore
    /\ fsDirs = ctxOut.fsBefore

\* get_cache_path("pytest", "bar.pkl") in a session started with
\* --local-cache, where cache_path lies outside local_data.
C8_Witness ==
  /\ ctxOut.op = "get_cache_path"
  /\ localCache
  /\ ctxOut.parts = <<"pytest", "bar.pkl">>
  /\ ctxOut.ctxBefore.cache_path # JoinPath(ctxOut.ctxBefore.local_data, <<"cache">>)

\* C6: every scenario returned by bare_res holds the data its own caller
\* last gave it, and every stored baseline holds the bare data: changing one
\* returned scenario alters neither the baseline nor another returned one.
C6_ClonesShareNoState ==
  /\ \A j \in 1..Len(calls) : store[calls[j]].data = expected[j]
  /\ \A i \in 1..Len(store) : store[i].isDefault => store[i].data = BareData

\* Two scenarios returned for the same model, one of them without a test
\* identity, were changed to different data.
C6_Witness ==
  /\ Len(calls) >= 2
  /\ store[calls[1]].model = store[calls[2]].model
  /\ store[calls[1]].scenario = "baseline"
  /\ expected[1] # BareData
  /\ expected[2] # BareData
  /\ expected[1] # expected[2]

\* C10: the scenario a bare_res call returns has a solution exactly when the
\* call asked for solved; a model name has at most one baseline (built only
\* when the lookup fails) and its baseline is solved at most once (only when
\* solved is asked and it has no solution yet).
C10_SolutionIffSolved ==
  /\ (bareOut.op = "bare_res" /\ bareOut.kind = "returned")
       => /\ store[bareOut.ret].has_solution = bareOut.solved
          /\ bareOut.didSolve = (bareOut.solved /\ ~bareOut.hadSolution)
  /\ \A m \in ModelNames :
       /\ Cardinality({i \in 1..Len(store) :
                         store[i].model = m /\ store[i].isDefault}) <= 1
       /\ nSolves[m] <= 1

\* An unsolved scenario was returned from a baseline that an earlier call
\* had created and solved.
C10_Witness ==
  /\ bareOut.op = "bare_res"
  /\ bareOut.kind = "returned"
  /\ ~bareOut.solved
  /\ bareOut.found
  /\ bareOut.hadSolution
  /\ ~store[bareOut.ret].has_solution

====
